---------------------------- MODULE Spec2Model ----------------------------
(***************************************************************************)
(* Activity standardization and windowed feature engine of                 *)
(* game-churn-prediction (src/game_churn/features).                        *)
(*                                                                         *)
(* Units.  Instants are whole seconds since the epoch (UTC).  Every value  *)
(* the code rounds with round(x, n) is kept as the integer x * 10^n:       *)
(*   playtime_*_hours, max_gap_days_30d, days_since_last_game,             *)
(*   engagement_score                      hundredths  (n = 2)             *)
(*   avg_daily_sessions_*, *_trend_7d_vs_14d, win_rate_*                   *)
(*                                         thousandths (n = 3)             *)
(* An optional value (reference_date, rating) is <<>> for None and <<v>>   *)
(* for the value v.                                                        *)
(***************************************************************************)
EXTENDS Integers, Sequences, FiniteSets, TLC

VARIABLES
    df,             \* the activity collection handed to the feature functions
    reference_date, \* the reference_date argument (None or an instant)
    settings,       \* game_churn.utils.config.settings
    raw,            \* the raw data store (data/01_raw): directories and files
    feature_dict,   \* the feature dict handed to the dict-level functions
    call,           \* the function applied last and its arguments
    result,         \* what that application returned
    clock,          \* what datetime.now(tz=UTC) returns when read
    loads,          \* what the calls of load_all_activities returned, in order
    pc,             \* build_all_features: "idle", or "loop" inside the per-key loop
    activities,     \* build_all_features: the collection it loaded
    pending,        \* build_all_features: the keys of player_platforms not yet built
    all_features,   \* build_all_features: the rows built so far
    started,        \* build_all_features: the instant its first log line shows
    builds,         \* the finished runs of build_all_features, in order
    raised          \* the exception that reached the caller (None when none did)

featureVars == <<df, reference_date, feature_dict, call, result>>

buildVars == <<pc, activities, pending, all_features, started, builds>>

vars == <<featureVars, settings, raw, clock, loads, buildVars, raised>>

-----------------------------------------------------------------------------
(* Bounds of the model *)

MaxActs == 2

-----------------------------------------------------------------------------
(* Numbers and optional values *)

None == <<>>

Some(v) == <<v>>

Day == 86400

Hour == 3600

\* round(n / d) to the nearest integer; d > 0, n of either sign.  Python's
\* round takes an exact tie to the even neighbour; where the quotient is a
\* double that only approximates the tie, the double's binary value decides
\* in the code.  No claim below rests on the direction of a tie: where a
\* rounded value is stated, either neighbour of a tie is accepted.
RoundDiv(n, d) ==
    LET q == n \div d
        r == n % d
    IN  IF 2 * r < d THEN q
        ELSE IF 2 * r > d THEN q + 1
        ELSE IF q % 2 = 0 THEN q ELSE q + 1

Min(a, b) == IF a <= b THEN a ELSE b

SetMax(S) == CHOOSE x \in S : \A y \in S : y <= x

-----------------------------------------------------------------------------
(* dict helpers *)

\* features.get(key, default)
Get(features, key, default) ==
    IF key \in DOMAIN features THEN features[key] ELSE default

\* features.update(other) / features[key] = value
Update(features, other) ==
    [k \in DOMAIN features \cup DOMAIN other |->
        IF k \in DOMAIN other THEN other[k] ELSE features[k]]

-----------------------------------------------------------------------------
(* engineer.py: the windowed aggregator *)

\* df.filter((player_id == player_id) & (platform == platform))
player_filter(frame, player_id, platform) ==
    SelectSeq(frame, LAMBDA a : a.player_id = player_id /\ a.platform = platform)

\* player_df.filter(game_timestamp >= cutoff)
window_filter_reversed(player_df, cutoff) ==
    SelectSeq(player_df, LAMBDA a : a.game_timestamp <= cutoff)

\* the window without the activities that lie exactly on the cutoff
window_filter_after_cutoff(player_df, cutoff) ==
    SelectSeq(player_df, LAMBDA a : a.game_timestamp > cutoff)

window_filter(player_df, cutoff) ==
    SelectSeq(player_df, LAMBDA a : a.game_timestamp >= cutoff)

\* reference_date or datetime.now(tz=UTC)
ref_or_now(ref_arg, now) == IF ref_arg = None THEN now ELSE ref_arg[1]

RECURSIVE duration_sum(_)
\* window_df["duration_seconds"].sum()
duration_sum(frame) ==
    IF frame = <<>> THEN 0
    ELSE Head(frame).duration_seconds + duration_sum(Tail(frame))

\* window_df.select(game_timestamp.dt.date()).n_unique()
unique_days(frame) ==
    Cardinality({frame[i].game_timestamp \div Day : i \in 1..Len(frame)})

RECURSIVE insert_by_timestamp(_, _)
insert_by_timestamp(a, sorted) ==
    IF sorted = <<>> THEN <<a>>
    ELSE IF Head(sorted).game_timestamp <= a.game_timestamp
         THEN <<Head(sorted)>> \o insert_by_timestamp(a, Tail(sorted))
         ELSE <<a>> \o sorted

RECURSIVE sort_by_timestamp(_)
\* frame.sort("game_timestamp"), rows of equal timestamp keeping their order
sort_by_timestamp(frame) ==
    IF frame = <<>> THEN <<>>
    ELSE insert_by_timestamp(frame[Len(frame)],
                             sort_by_timestamp(SubSeq(frame, 1, Len(frame) - 1)))

\* the smallest of the gaps instead of the largest
min_gap_seconds(sorted) ==
    LET gaps == {sorted[i + 1].game_timestamp - sorted[i].game_timestamp :
                     i \in 1..(Len(sorted) - 1)}
    IN  CHOOSE x \in gaps : \A y \in gaps : x <= y

\* max of the gaps (seconds) between consecutive rows of a sorted frame
max_gap_seconds(sorted) ==
    SetMax({sorted[i + 1].game_timestamp - sorted[i].game_timestamp :
                i \in 1..(Len(sorted) - 1)})

\* The empty result with the gap at the sentinel of days_since_last_game.
empty_features_gap_unbounded(player_id, platform) ==
    [player_id |-> player_id,
     platform |-> platform,
     games_7d |-> 0,
     games_14d |-> 0,
     games_30d |-> 0,
     playtime_7d_hours |-> 0,
     playtime_14d_hours |-> 0,
     playtime_30d_hours |-> 0,
     avg_daily_sessions_7d |-> 0,
     avg_daily_sessions_14d |-> 0,
     avg_daily_sessions_30d |-> 0,
     max_gap_days_30d |-> 99900]

empty_features_without_gap(player_id, platform) ==
    [player_id |-> player_id,
     platform |-> platform,
     games_7d |-> 0,
     games_14d |-> 0,
     games_30d |-> 0,
     playtime_7d_hours |-> 0,
     playtime_14d_hours |-> 0,
     playtime_30d_hours |-> 0,
     avg_daily_sessions_7d |-> 0,
     avg_daily_sessions_14d |-> 0,
     avg_daily_sessions_30d |-> 0]

empty_features_schema_default(player_id, platform) ==
    [player_id |-> player_id,
     platform |-> platform,
     games_7d |-> 0,
     games_14d |-> 0,
     games_30d |-> 0,
     playtime_7d_hours |-> 0,
     playtime_14d_hours |-> 0,
     playtime_30d_hours |-> 0,
     avg_daily_sessions_7d |-> 0,
     avg_daily_sessions_14d |-> 0,
     avg_daily_sessions_30d |-> 0,
     max_gap_days_30d |-> 0]

empty_features(player_id, platform) ==
    [player_id |-> player_id,
     platform |-> platform,
     games_7d |-> 0,
     games_14d |-> 0,
     games_30d |-> 0,
     playtime_7d_hours |-> 0,
     playtime_14d_hours |-> 0,
     playtime_30d_hours |-> 0,
     avg_daily_sessions_7d |-> 0,
     avg_daily_sessions_14d |-> 0,
     avg_daily_sessions_30d |-> 0,
     max_gap_days_30d |-> 3000]

compute_time_window_features(frame, player_id, platform, ref_arg, now) ==
    LET ref == ref_or_now(ref_arg, now)
        player_df == player_filter(frame, player_id, platform)
        window_df(w) == window_filter(player_df, ref - w * Day)
        game_count(w) == Len(window_df(w))
        playtime(w) == RoundDiv(100 * duration_sum(window_df(w)), Hour)
        sessions(w) ==
            IF game_count(w) > 0
            THEN RoundDiv(1000 * unique_days(window_df(w)), w)
            ELSE 0
        recent == sort_by_timestamp(window_filter(player_df, ref - 30 * Day))
    IN  IF player_df = <<>>
        THEN empty_features(player_id, platform)
        ELSE [player_id |-> player_id,
              platform |-> platform,
              games_7d |-> game_count(7),
              playtime_7d_hours |-> playtime(7),
              avg_daily_sessions_7d |-> sessions(7),
              games_14d |-> game_count(14),
              playtime_14d_hours |-> playtime(14),
              avg_daily_sessions_14d |-> sessions(14),
              games_30d |-> game_count(30),
              playtime_30d_hours |-> playtime(30),
              avg_daily_sessions_30d |-> sessions(30),
              max_gap_days_30d |->
                  IF Len(recent) >= 2
                  THEN RoundDiv(100 * max_gap_seconds(recent), Day)
                  ELSE 3000]

-----------------------------------------------------------------------------
(* engineer.py: the churn labeler *)

\* days_since >= settings.churn_threshold_days, days_since in seconds
churn_test_rounded(seconds_since, threshold_days) ==
    RoundDiv(100 * seconds_since, Day) >= 100 * threshold_days

\* The threshold read as a number of weeks.
churn_test_weeks(seconds_since, threshold_days) ==
    seconds_since >= threshold_days * 7 * Day

churn_test(seconds_since, threshold_days) ==
    seconds_since >= threshold_days * Day

compute_churn_label(frame, player_id, platform, ref_arg, now, conf) ==
    LET ref == ref_or_now(ref_arg, now)
        player_df == player_filter(frame, player_id, platform)
        last_game == SetMax({player_df[i].game_timestamp : i \in 1..Len(player_df)})
        seconds_since == ref - last_game
    IN  IF player_df = <<>>
        THEN [days_since_last_game |-> 99900, churned |-> TRUE]
        ELSE [days_since_last_game |-> RoundDiv(100 * seconds_since, Day),
              churned |-> churn_test(seconds_since, conf.churn_threshold_days)]

-----------------------------------------------------------------------------
(* engineer.py: trend, performance, social, engagement *)

\* round(numerator / denominator, 3) if denominator > 0 else 0.0
trend_ratio_truncated(numerator, denominator) ==
    IF denominator > 0 THEN (1000 * numerator) \div denominator ELSE 0

\* the ratio of the per-day rates of the two windows (count / 7 over count / 14)
trend_ratio_per_day(numerator, denominator) ==
    IF denominator > 0 THEN RoundDiv(2000 * numerator, denominator) ELSE 0

trend_ratio(numerator, denominator) ==
    IF denominator > 0 THEN RoundDiv(1000 * numerator, denominator) ELSE 0

compute_trend_features(features) ==
    LET games_7d == Get(features, "games_7d", 0)
        games_14d == Get(features, "games_14d", 0)
        pt_7d == Get(features, "playtime_7d_hours", 0)
        pt_14d == Get(features, "playtime_14d_hours", 0)
    IN  Update(features,
               [games_trend_7d_vs_14d |-> trend_ratio(games_7d, games_14d),
                playtime_trend_7d_vs_14d |-> trend_ratio(pt_7d, pt_14d)])

\* wins over the decided games (wins and losses) only
win_rate_of_decided(player_df, cutoff) ==
    LET window_df == window_filter(player_df, cutoff)
        total == Len(SelectSeq(window_df, LAMBDA a : a.result \in {"win", "loss"}))
        wins == Len(SelectSeq(window_df, LAMBDA a : a.result = "win"))
    IN  IF total > 0 THEN RoundDiv(1000 * wins, total) ELSE 0

\* round(wins / total, 3) over the window, 0.0 when the window is empty
win_rate(player_df, cutoff) ==
    LET window_df == window_filter(player_df, cutoff)
        total == Len(window_df)
        wins == Len(SelectSeq(window_df, LAMBDA a : a.result = "win"))
    IN  IF total > 0 THEN RoundDiv(1000 * wins, total) ELSE 0

\* the baseline taken strictly before the cutoff
old_rated_filter_before(rated, cutoff_30) ==
    SelectSeq(rated, LAMBDA a : a.game_timestamp < cutoff_30)

\* rated.filter(game_timestamp <= cutoff_30)
old_rated_filter(rated, cutoff_30) ==
    SelectSeq(rated, LAMBDA a : a.game_timestamp <= cutoff_30)

\* the rating of the first rated activity instead of the last
rating_first(rated) == rated[1].rating[1]

\* rated["rating"][-1]
rating_last(rated) == rated[Len(rated)].rating[1]

compute_performance_features(frame, player_id, platform, ref_arg, now) ==
    LET ref == ref_or_now(ref_arg, now)
        player_df == player_filter(frame, player_id, platform)
        rated == sort_by_timestamp(SelectSeq(player_df, LAMBDA a : a.rating # None))
        rating_current == rating_last(rated)
        cutoff_30 == ref - 30 * Day
        old_rated == old_rated_filter(rated, cutoff_30)
    IN  [win_rate_7d |-> win_rate(player_df, ref - 7 * Day),
         win_rate_30d |-> win_rate(player_df, ref - 30 * Day),
         rating_current |->
             IF Len(rated) > 0 THEN Some(rating_current) ELSE None,
         rating_change_30d |->
             IF Len(rated) > 0 /\ Len(old_rated) > 0
             THEN rating_current - rating_last(old_rated)
             ELSE 0]

\* path.exists() for <raw_dir>/<directory>/<stem>.json
file_exists(raw_dir, directory, stem) ==
    /\ raw_dir[directory] # None
    /\ stem \in DOMAIN raw_dir[directory][1]

\* json.loads(path.read_text())
load_json(raw_dir, directory, stem) == raw_dir[directory][1][stem]

\* json.loads raises JSONDecodeError on a text that is not JSON; the raw
\* store lists the files with such a text under not_json.
load_json_raises(raw_dir, directory, stem) ==
    <<directory, stem>> \in raw_dir["not_json"]

JSONDecodeError == "JSONDecodeError"

RECURSIVE peer_games_sum(_)
\* sum(p.get("games", 0) for p in peers)
peer_games_sum(peers) ==
    IF peers = <<>> THEN 0
    ELSE Get(Head(peers), "games", 0) + peer_games_sum(Tail(peers))

compute_social_features(player_id, raw_dir) ==
    LET stem == player_id \o <<"peers">>
        peers == load_json(raw_dir, "opendota", stem)
    IN  IF ~file_exists(raw_dir, "opendota", stem)
        THEN [unique_peers_30d |-> 0, peer_games_30d |-> 0]
        ELSE [unique_peers_30d |-> Len(peers),
              peer_games_30d |-> peer_games_sum(peers)]

\* One point of the score, in the unit the terms are summed in: every term
\* (count / 2, thousandths * 30, thousandths * 20, thousandths * 15,
\* count / 3) is a whole number of 1/6000 points.
PointUnits == 2 * 3 * 1000

\* round(min(score, 100.0), 2), score in 1/6000 points
final_score_unclamped(score) == RoundDiv(100 * score, PointUnits)

final_score(score) == RoundDiv(100 * Min(score, 100 * PointUnits), PointUnits)

\* the score with the trend term left uncapped
compute_engagement_score_trend_uncapped(features) ==
    LET games_30d == Get(features, "games_30d", 0)
        avg_sessions == Get(features, "avg_daily_sessions_30d", 0)
        trend == Get(features, "games_trend_7d_vs_14d", 0)
        wr == Get(features, "win_rate_30d", 0)
        peers == Get(features, "unique_peers_30d", 0)
        score == Min(3000 * games_30d, 30 * PointUnits)
                 + Min(180 * avg_sessions, 20 * PointUnits)
                 + 120 * trend
                 + 90 * wr
                 + Min(2000 * peers, 15 * PointUnits)
    IN  final_score(score)

compute_engagement_score(features) ==
    LET games_30d == Get(features, "games_30d", 0)
        avg_sessions == Get(features, "avg_daily_sessions_30d", 0)
        trend == Get(features, "games_trend_7d_vs_14d", 0)
        wr == Get(features, "win_rate_30d", 0)
        peers == Get(features, "unique_peers_30d", 0)
        score == Min(3000 * games_30d, 30 * PointUnits)
                 + Min(180 * avg_sessions, 20 * PointUnits)
                 + Min(120 * trend, 20 * PointUnits)
                 + 90 * wr
                 + Min(2000 * peers, 15 * PointUnits)
    IN  final_score(score)

\* every platform taken to have a peer list
reads_peers_always(platform) == TRUE

\* platform == "opendota"
reads_peers(platform) == platform = "opendota"

\* nows: what datetime.now() returns to the three functions that read it
build_features_for_player(frame, player_id, platform, ref_arg, raw_dir, nows, conf) ==
    LET f1 == compute_time_window_features(frame, player_id, platform, ref_arg, nows[1])
        f2 == compute_trend_features(f1)
        f3 == Update(f2, compute_performance_features(frame, player_id, platform,
                                                      ref_arg, nows[2]))
        f4 == IF reads_peers(platform)
              THEN Update(f3, compute_social_features(player_id, raw_dir))
              ELSE Update(f3, [unique_peers_30d |-> 0, peer_games_30d |-> 0])
        f5 == Update(f4, [engagement_score |-> compute_engagement_score(f4)])
    IN  Update(f5, compute_churn_label(frame, player_id, platform, ref_arg,
                                       nows[3], conf))

-----------------------------------------------------------------------------
(* standardize.py: names *)

\* A name (player identifier, file stem) is the sequence of the segments its
\* underscores separate: "ann_games" is <<"ann", "games">>.  No segment
\* contains an underscore, and none but the literal suffixes themselves
\* begins with "games", "matches" or "account".

\* str.lower() of one segment, over the segments the model writes in capitals
lower_segment(segment) ==
    CASE segment = "Kai" -> "kai"
      [] segment = "NA1" -> "na1"
      [] OTHER -> segment

\* name.lower()
lower(name) == [i \in DOMAIN name |-> lower_segment(name[i])]

\* f"{name}_{suffix}"
with_suffix(name, suffix) == name \o <<suffix>>

\* stem.replace("_" + suffix, ""): every occurrence goes, not only the last
replace_all(stem, suffix) ==
    IF stem = <<>> THEN stem
    ELSE <<Head(stem)>> \o SelectSeq(Tail(stem), LAMBDA segment : segment # suffix)

\* safe_name.rsplit("_", 1)
rsplit_once(name) ==
    IF Len(name) >= 2
    THEN <<SubSeq(name, 1, Len(name) - 1), <<name[Len(name)]>>>>
    ELSE <<name>>

RECURSIVE scan_order(_)
\* The order in which a directory scan yields a set of names.
scan_order(names) ==
    IF names = {} THEN <<>>
    ELSE LET first == CHOOSE n \in names : TRUE
         IN  <<first>> \o scan_order(names \ {first})

\* directory.glob("*_<suffix>.json"), as stems
glob(raw_dir, directory, suffix) ==
    scan_order({stem \in DOMAIN raw_dir[directory][1] :
                    Len(stem) >= 2 /\ stem[Len(stem)] = suffix})

-----------------------------------------------------------------------------
(* standardize.py: the per-platform standardizers *)

\* schema.PlayerActivity.model_dump()
PlayerActivity(player_id, platform, game_timestamp, duration_seconds, game_result, rating, game_mode) ==
    [player_id |-> player_id,
     platform |-> platform,
     game_timestamp |-> game_timestamp,
     duration_seconds |-> duration_seconds,
     result |-> game_result,
     rating |-> rating,
     game_mode |-> game_mode]

EmptyDict == <<>>

\* What p.get("puuid") returns when the key is missing (None).
MissingText == "(None)"

\* datetime.fromtimestamp(ts, tz=UTC) if ts else datetime.now(tz=UTC)
timestamp_or_now(ts, now) == IF ts # 0 THEN ts ELSE now

\* The classification with timeout left out of the losses.
chess_result_without_timeout(result_str) ==
    IF result_str = "win" THEN "win"
    ELSE IF result_str \in {"checkmated", "resigned", "abandoned"}
         THEN "loss"
         ELSE "draw"

chess_result(result_str) ==
    IF result_str = "win" THEN "win"
    ELSE IF result_str \in {"checkmated", "timeout", "resigned", "abandoned"}
         THEN "loss"
         ELSE "draw"

\* d.get(key): None when the key is missing
get_optional(d, key) == IF key \in DOMAIN d THEN Some(d[key]) ELSE None

chess_activity(game, username, now) ==
    LET white == Get(game, "white", EmptyDict)
        black == Get(game, "black", EmptyDict)
        is_white == lower(Get(white, "username", <<>>)) = lower(username)
        player_data == IF is_white THEN white ELSE black
    IN  PlayerActivity(lower(username), "chess_com",
                       timestamp_or_now(Get(game, "end_time", 0), now),
                       0,
                       chess_result(Get(player_data, "result", "unknown")),
                       get_optional(player_data, "rating"),
                       Get(game, "time_class", "unknown"))

standardize_chess_com(username, raw_dir, now) ==
    LET stem == with_suffix(lower(username), "games")
        games == load_json(raw_dir, "chess_com", stem)
    IN  IF ~file_exists(raw_dir, "chess_com", stem) THEN <<>>
        ELSE [i \in 1..Len(games) |-> chess_activity(games[i], username, now)]

opendota_activity(match, account_id, now) ==
    LET player_slot == Get(match, "player_slot", 0)
        radiant_win == Get(match, "radiant_win", FALSE)
        is_radiant == player_slot < 128
        won == (is_radiant /\ radiant_win) \/ (~is_radiant /\ ~radiant_win)
    IN  PlayerActivity(account_id, "opendota",
                       timestamp_or_now(Get(match, "start_time", 0), now),
                       Get(match, "duration", 0),
                       IF won THEN "win" ELSE "loss",
                       None,
                       IF "game_mode" \in DOMAIN match
                       THEN ToString(match["game_mode"]) ELSE "unknown")

standardize_opendota(account_id, raw_dir, now) ==
    LET stem == with_suffix(account_id, "matches")
        matches == load_json(raw_dir, "opendota", stem)
    IN  IF ~file_exists(raw_dir, "opendota", stem) THEN <<>>
        ELSE [i \in 1..Len(matches) |-> opendota_activity(matches[i], account_id, now)]

\* next((p for p in participants if p.get("puuid") == puuid), None)
find_participant(participants, puuid) ==
    LET hits == {i \in 1..Len(participants) :
                    Get(participants[i], "puuid", MissingText) = puuid}
    IN  IF hits = {} THEN None
        ELSE Some(participants[CHOOSE i \in hits : \A j \in hits : i <= j])

RECURSIVE riot_activities(_, _, _)
riot_activities(matches, safe_name, puuid) ==
    IF matches = <<>> THEN <<>>
    ELSE LET info == Get(Head(matches), "info", EmptyDict)
             player_data == find_participant(Get(info, "participants", <<>>), puuid)
             rest == riot_activities(Tail(matches), safe_name, puuid)
         IN  IF player_data = None THEN rest
             ELSE <<PlayerActivity(safe_name, "riot_lol",
                                   Get(info, "gameCreation", 0) \div 1000,
                                   Get(info, "gameDuration", 0),
                                   IF Get(player_data[1], "win", FALSE)
                                   THEN "win" ELSE "loss",
                                   None,
                                   Get(info, "gameMode", "unknown"))>> \o rest

standardize_riot(game_name, tag_line, raw_dir) ==
    LET safe_name == lower(game_name \o tag_line)
        matches_stem == with_suffix(safe_name, "matches")
        account_stem == with_suffix(safe_name, "account")
        account == load_json(raw_dir, "riot_lol", account_stem)
    IN  IF ~file_exists(raw_dir, "riot_lol", matches_stem)
           \/ ~file_exists(raw_dir, "riot_lol", account_stem)
        THEN <<>>
        ELSE riot_activities(load_json(raw_dir, "riot_lol", matches_stem),
                             safe_name, Get(account, "puuid", ""))

\* The standardizers call _load_json without a try: a file that exists and
\* does not parse makes them raise.
standardize_chess_com_raises(username, raw_dir) ==
    LET stem == with_suffix(lower(username), "games")
    IN  /\ file_exists(raw_dir, "chess_com", stem)
        /\ load_json_raises(raw_dir, "chess_com", stem)

standardize_opendota_raises(account_id, raw_dir) ==
    LET stem == with_suffix(account_id, "matches")
    IN  /\ file_exists(raw_dir, "opendota", stem)
        /\ load_json_raises(raw_dir, "opendota", stem)

standardize_riot_raises(game_name, tag_line, raw_dir) ==
    LET safe_name == lower(game_name \o tag_line)
        matches_stem == with_suffix(safe_name, "matches")
        account_stem == with_suffix(safe_name, "account")
    IN  /\ file_exists(raw_dir, "riot_lol", matches_stem)
        /\ file_exists(raw_dir, "riot_lol", account_stem)
        /\ \/ load_json_raises(raw_dir, "riot_lol", account_stem)
           \/ load_json_raises(raw_dir, "riot_lol", matches_stem)

-----------------------------------------------------------------------------
(* standardize.py: the loader *)

\* f.stem.replace("_games", "") and its siblings
stem_identifier(stem, suffix) == replace_all(stem, suffix)

RECURSIVE extend_chess(_, _, _)
extend_chess(stems, raw_dir, now) ==
    IF stems = <<>> THEN <<>>
    ELSE standardize_chess_com(stem_identifier(Head(stems), "games"), raw_dir, now)
         \o extend_chess(Tail(stems), raw_dir, now)

RECURSIVE extend_opendota(_, _, _)
extend_opendota(stems, raw_dir, now) ==
    IF stems = <<>> THEN <<>>
    ELSE standardize_opendota(stem_identifier(Head(stems), "matches"), raw_dir, now)
         \o extend_opendota(Tail(stems), raw_dir, now)

RECURSIVE extend_riot(_, _)
extend_riot(stems, raw_dir) ==
    IF stems = <<>> THEN <<>>
    ELSE LET parts == rsplit_once(stem_identifier(Head(stems), "account"))
         IN  (IF Len(parts) = 2
              THEN standardize_riot(parts[1], parts[2], raw_dir)
              ELSE <<>>)
             \o extend_riot(Tail(stems), raw_dir)

\* The load without the final sort.
load_all_activities_unsorted(raw_dir, now) ==
    LET chess == IF raw_dir["chess_com"] # None
                 THEN extend_chess(glob(raw_dir, "chess_com", "games"), raw_dir, now)
                 ELSE <<>>
        dota == IF raw_dir["opendota"] # None
                THEN extend_opendota(glob(raw_dir, "opendota", "matches"), raw_dir, now)
                ELSE <<>>
        riot == IF raw_dir["riot_lol"] # None
                THEN extend_riot(glob(raw_dir, "riot_lol", "account"), raw_dir)
                ELSE <<>>
    IN  chess \o dota \o riot

\* now: what datetime.now() returns to the standardizers during the call
load_all_activities(raw_dir, now) ==
    LET chess == IF raw_dir["chess_com"] # None
                 THEN extend_chess(glob(raw_dir, "chess_com", "games"), raw_dir, now)
                 ELSE <<>>
        dota == IF raw_dir["opendota"] # None
                THEN extend_opendota(glob(raw_dir, "opendota", "matches"), raw_dir, now)
                ELSE <<>>
        riot == IF raw_dir["riot_lol"] # None
                THEN extend_riot(glob(raw_dir, "riot_lol", "account"), raw_dir)
                ELSE <<>>
        all_activities == chess \o dota \o riot
    IN  IF all_activities = <<>> THEN <<>>
        ELSE sort_by_timestamp(all_activities)

\* load_all_activities calls the standardizers without a try: the first
\* one that raises ends the call.
load_all_activities_raises(raw_dir) ==
    LET chess == IF raw_dir["chess_com"] # None
                 THEN glob(raw_dir, "chess_com", "games") ELSE <<>>
        dota == IF raw_dir["opendota"] # None
                THEN glob(raw_dir, "opendota", "matches") ELSE <<>>
        riot == IF raw_dir["riot_lol"] # None
                THEN glob(raw_dir, "riot_lol", "account") ELSE <<>>
    IN  \/ \E i \in DOMAIN chess :
               standardize_chess_com_raises(stem_identifier(chess[i], "games"), raw_dir)
        \/ \E i \in DOMAIN dota :
               standardize_opendota_raises(stem_identifier(dota[i], "matches"), raw_dir)
        \/ \E i \in DOMAIN riot :
               LET parts == rsplit_once(stem_identifier(riot[i], "account"))
               IN  /\ Len(parts) = 2
                   /\ standardize_riot_raises(parts[1], parts[2], raw_dir)

\* The columns of the frame load_all_activities returns: those of the
\* schema it gives the empty frame, else the keys of the dumped records.
activity_schema ==
    {"player_id", "platform", "game_timestamp", "duration_seconds",
     "result", "rating", "game_mode"}

frame_columns(all_activities) ==
    IF all_activities = <<>> THEN activity_schema
    ELSE UNION {DOMAIN all_activities[i] : i \in DOMAIN all_activities}

-----------------------------------------------------------------------------
(* Inputs of the feature functions *)

\* Reference instants: noon of day 36, and ten minutes later.
RefNoon == 36 * Day + 12 * Hour

RefInstants == {RefNoon, RefNoon + 600}

\* Instants of play, by their age at RefNoon: a day; exactly 7 days (on the
\* 7-day cutoff); 13.996 days (inside the 14-day window, within half a
\* hundredth of a day of it); exactly 30 days (on the 30-day cutoff); 35 days;
\* and a day after RefNoon (a reference instant set in the past of the data).
PlayInstants ==
    {RefNoon - Day, RefNoon - 7 * Day, RefNoon - 1209255,
     RefNoon - 30 * Day, RefNoon - 35 * Day, RefNoon + Day}

\* Integers the environment may give as GAME_CHURN_CHURN_THRESHOLD_DAYS.
Thresholds == {14, 7, -1}

\* The variable in the environment: unset (None), a text that reads as an
\* integer, or a text that does not.
IntegerText(value) == [integer |-> TRUE, value |-> value]

NotANumber == [integer |-> FALSE, value |-> 0]

EnvValues == {None, Some(NotANumber)} \cup {Some(IntegerText(d)) : d \in Thresholds}

\* settings = Settings(): the field is declared int with default 14 and no
\* bound.  pydantic takes the default when the variable is unset, any
\* integer as it is, and raises ValidationError (None here) for a text
\* that is not an integer, which ends the import.
Settings(env) ==
    IF env = None THEN Some([churn_threshold_days |-> 14])
    ELSE IF env[1].integer THEN Some([churn_threshold_days |-> env[1].value])
    ELSE None

\* The settings with which the program can run.
LoadedSettings == {Settings(env)[1] : env \in {e \in EnvValues : Settings(e) # None}}

FeatureKeys ==
    {[player_id |-> <<"ann">>, platform |-> "chess_com"],
     [player_id |-> <<"bo">>, platform |-> "opendota"]}

\* What one game carries besides its key and instant.
Payloads ==
    {[duration_seconds |-> 1800, result |-> "win", rating |-> Some(1500),
      game_mode |-> "rapid"],
     [duration_seconds |-> 2000, result |-> "loss", rating |-> None,
      game_mode |-> "22"],
     [duration_seconds |-> 0, result |-> "draw", rating |-> Some(1450),
      game_mode |-> "blitz"]}

Activities ==
    {PlayerActivity(k.player_id, k.platform, t, p.duration_seconds, p.result,
                    p.rating, p.game_mode) :
        k \in FeatureKeys, t \in PlayInstants, p \in Payloads}

\* _make_activity_df of the tests with every game won: n_games games of
\* 1800 s, evenly spaced from start_days_ago to end_days_ago before now,
\* rated 1500 + 5 i.
make_activity_df(player_id, platform, n_games, start_days_ago, end_days_ago, now) ==
    [n \in 1..n_games |->
        PlayerActivity(player_id, platform,
                       now - start_days_ago * Day
                           + ((n - 1) * (start_days_ago - end_days_ago) * Day)
                                 \div (IF n_games > 1 THEN n_games - 1 ELSE 1),
                       1800, "win", Some(1500 + (n - 1) * 5), "rapid")]

\* 20 games evenly spaced over the 25 days before RefNoon.
TwentyGames == make_activity_df(<<"ann">>, "chess_com", 20, 25, 1, RefNoon)

\* Three games of one key out of timestamp order (7 days, 1 day and 30 days
\* before RefNoon), a win, an "unknown" result and a loss.
ThreeGames ==
    <<PlayerActivity(<<"ann">>, "chess_com", RefNoon - 7 * Day, 600, "win",
                     Some(1520), "rapid"),
      PlayerActivity(<<"ann">>, "chess_com", RefNoon - Day, 900, "unknown",
                     None, "rapid"),
      PlayerActivity(<<"ann">>, "chess_com", RefNoon - 30 * Day, 1200, "loss",
                     Some(1480), "rapid")>>

ScenarioFrames == {TwentyGames, ThreeGames}

Frames == UNION {[1..n -> Activities] : n \in 0..MaxActs} \cup ScenarioFrames

\* A raw store holding peer lists only: bo's (opendota/bo_peers.json) and
\* one under the identifier of the Chess.com player (opendota/ann_peers.json).
PeersStore ==
    [chess_com |-> None,
     opendota |-> Some((<<"bo", "peers">> :> <<[games |-> 4], [account_id |-> 9]>>)
                       @@ (<<"ann", "peers">> :> <<[account_id |-> 5, games |-> 7]>>)),
     riot_lol |-> None,
     not_json |-> {}]

\* A raw store whose opendota directory holds no peer list.
NoPeersStore ==
    [chess_com |-> None,
     opendota |-> Some((<<"bo", "matches">> :> <<>>)),
     riot_lol |-> None,
     not_json |-> {}]

\* A raw store without any directory.
EmptyStore == [chess_com |-> None, opendota |-> None, riot_lol |-> None, not_json |-> {}]

FeatureStores == {PeersStore, NoPeersStore, EmptyStore}

NoCall == [fn |-> "none"]

\* build_all_features has not been started.
BuilderIdle ==
    /\ pc = "idle"
    /\ activities = <<>>
    /\ pending = <<>>
    /\ all_features = <<>>
    /\ started = 0
    /\ builds = <<>>

\* No feature function has been applied by hand.
NoFeatureCall ==
    /\ df = <<>>
    /\ reference_date = None
    /\ feature_dict = <<>>
    /\ call = NoCall
    /\ result = <<>>

-----------------------------------------------------------------------------
(* The feature functions applied to a collection *)

InitFeatures ==
    /\ raised = None
    /\ df \in Frames
    /\ reference_date \in {Some(r) : r \in RefInstants}
    /\ settings \in LoadedSettings
    /\ raw \in FeatureStores
    /\ feature_dict = <<>>
    /\ call = NoCall
    /\ result = <<>>
    /\ clock = RefNoon
    /\ loads = <<>>
    /\ BuilderIdle

\* reference_date is given, so datetime.now() is never read
Unread == 0

call_compute_time_window_features(k) ==
    /\ call = NoCall
    /\ call' = [fn |-> "compute_time_window_features",
                player_id |-> k.player_id, platform |-> k.platform]
    /\ result' = compute_time_window_features(df, k.player_id, k.platform,
                                              reference_date, Unread)
    /\ UNCHANGED <<df, reference_date, settings, raw, feature_dict, clock, loads, buildVars, raised>>

call_compute_performance_features(k) ==
    /\ call = NoCall
    /\ call' = [fn |-> "compute_performance_features",
                player_id |-> k.player_id, platform |-> k.platform]
    /\ result' = compute_performance_features(df, k.player_id, k.platform,
                                              reference_date, Unread)
    /\ UNCHANGED <<df, reference_date, settings, raw, feature_dict, clock, loads, buildVars, raised>>

call_compute_churn_label(k) ==
    /\ call = NoCall
    /\ call' = [fn |-> "compute_churn_label",
                player_id |-> k.player_id, platform |-> k.platform]
    /\ result' = compute_churn_label(df, k.player_id, k.platform,
                                     reference_date, Unread, settings)
    /\ UNCHANGED <<df, reference_date, settings, raw, feature_dict, clock, loads, buildVars, raised>>

call_build_features_for_player(k) ==
    /\ call = NoCall
    /\ call' = [fn |-> "build_features_for_player",
                player_id |-> k.player_id, platform |-> k.platform]
    /\ result' = build_features_for_player(df, k.player_id, k.platform,
                                           reference_date, raw,
                                           <<Unread, Unread, Unread>>, settings)
    /\ UNCHANGED <<df, reference_date, settings, raw, feature_dict, clock, loads, buildVars, raised>>

NextFeatures ==
    \E k \in FeatureKeys :
        \/ call_compute_time_window_features(k)
        \/ call_compute_performance_features(k)
        \/ call_compute_churn_label(k)
        \/ call_build_features_for_player(k)

SpecFeatures == InitFeatures /\ [][NextFeatures]_vars

-----------------------------------------------------------------------------
(* Claims about the feature functions (SpecFeatures) *)

\* The activities of the called key in df, as a set of row indices.
OwnRows == {i \in 1..Len(df) : /\ df[i].player_id = call.player_id
                               /\ df[i].platform = call.platform}

RefInstant == reference_date[1]

\* C1: compute_time_window_features returns games_7d <= games_14d <=
\* games_30d and playtime_7d_hours <= playtime_14d_hours <=
\* playtime_30d_hours, the playtimes being the rounded values it emits.
C1_WindowsMonotone ==
    call.fn = "compute_time_window_features" =>
        /\ result.games_7d <= result.games_14d
        /\ result.games_14d <= result.games_30d
        /\ result.playtime_7d_hours <= result.playtime_14d_hours
        /\ result.playtime_14d_hours <= result.playtime_30d_hours

C1_Witness ==
    /\ call.fn = "compute_time_window_features"
    /\ result.games_7d < result.games_14d
    /\ result.games_14d < result.games_30d
    /\ result.playtime_7d_hours < result.playtime_14d_hours
    /\ result.playtime_14d_hours < result.playtime_30d_hours

C5_NoActivitySnapshot ==
    (call.fn = "build_features_for_player" /\ OwnRows = {}) =>
        /\ result.games_7d = 0 /\ result.games_14d = 0 /\ result.games_30d = 0
        /\ result.playtime_7d_hours = 0
        /\ result.playtime_14d_hours = 0
        /\ result.playtime_30d_hours = 0
        /\ result.avg_daily_sessions_7d = 0
        /\ result.avg_daily_sessions_14d = 0
        /\ result.avg_daily_sessions_30d = 0
        /\ result.max_gap_days_30d = 3000
        /\ result.days_since_last_game = 99900
        /\ result.churned = TRUE

\* The key has no activity while the collection holds another key's games.
C5_Witness ==
    /\ call.fn = "build_features_for_player"
    /\ OwnRows = {}
    /\ Len(df) = MaxActs
    /\ settings.churn_threshold_days = 7
    /\ result.max_gap_days_30d = 3000
    /\ result.churned

-----------------------------------------------------------------------------
(* The dict-level functions applied to a feature dict *)

\* The dict f without the keys in drop (a caller that never set them).
Without(f, drop) == [k \in DOMAIN f \ drop |-> f[k]]

\* Window fields as compute_trend_features reads them; playtimes in
\* hundredths of an hour (5.0 and 8.0 hours are the test's values).
TrendDicts ==
    {Without([games_7d |-> g7, games_14d |-> g14,
              playtime_7d_hours |-> p7, playtime_14d_hours |-> p14], drop) :
        g7 \in {0, 10, 20}, g14 \in {0, 3, 15}, p7 \in {0, 500},
        p14 \in {0, 800},
        drop \in {{}, {"games_7d"}, {"games_14d"}, {"playtime_14d_hours"}}}

\* Fields as compute_engagement_score reads them, each at zero, at the
\* test's value and far above the cap of its term; rates in thousandths.
ScoreDicts ==
    {Without([games_30d |-> g, avg_daily_sessions_30d |-> a,
              games_trend_7d_vs_14d |-> t, win_rate_30d |-> w,
              unique_peers_30d |-> p], drop) :
        g \in {0, 30, 1000}, a \in {0, 500, 5000}, t \in {0, 700, 50000},
        w \in {0, 550, 1000, 10000}, p \in {0, 10, 900},
        drop \in {{}, {"games_30d"}, {"games_trend_7d_vs_14d"},
                  {"win_rate_30d"}, {"unique_peers_30d"}}}

InitDict ==
    /\ raised = None
    /\ feature_dict \in TrendDicts \cup ScoreDicts
    /\ df = <<>>
    /\ reference_date = None
    /\ settings = [churn_threshold_days |-> 14]
    /\ raw = PeersStore
    /\ call = NoCall
    /\ result = <<>>
    /\ clock = RefNoon
    /\ loads = <<>>
    /\ BuilderIdle

\* The dict is changed in place and returned.
call_compute_trend_features ==
    /\ call = NoCall
    /\ call' = [fn |-> "compute_trend_features", features |-> feature_dict]
    /\ feature_dict' = compute_trend_features(feature_dict)
    /\ result' = feature_dict'
    /\ UNCHANGED <<df, reference_date, settings, raw, clock, loads, buildVars, raised>>

call_compute_engagement_score ==
    /\ call.fn \in {"none", "compute_trend_features"}
    /\ call' = [fn |-> "compute_engagement_score", features |-> feature_dict]
    /\ result' = compute_engagement_score(feature_dict)
    /\ UNCHANGED <<df, reference_date, settings, raw, feature_dict, clock, loads, buildVars, raised>>

NextDict ==
    \/ call_compute_trend_features
    \/ call_compute_engagement_score

SpecDict == InitDict /\ [][NextDict]_vars

-----------------------------------------------------------------------------
(* Claims about the dict-level functions (SpecDict) *)

\* C3: compute_engagement_score returns a value in [0, 100] for every dict
\* of non-negative inputs, inputs far above the caps and missing keys
\* included.
C3_ScoreInRange ==
    call.fn = "compute_engagement_score" =>
        (result >= 0 /\ result <= 100 * 100)

\* A key is missing, the win rate is ten times its domain, the score is 100.
C3_Witness ==
    /\ call.fn = "compute_engagement_score"
    /\ "games_30d" \notin DOMAIN call.features
    /\ Get(call.features, "win_rate_30d", 0) > 1000
    /\ Get(call.features, "unique_peers_30d", 0) > 45
    /\ result = 100 * 100

\* t is numerator / denominator rounded to thousandths (either way on a tie)
NearestThousandth(t, numerator, denominator) ==
    /\ 2 * (t * denominator - 1000 * numerator) <= denominator
    /\ 2 * (1000 * numerator - t * denominator) <= denominator

\* C4: compute_trend_features sets games_trend_7d_vs_14d to games_7d /
\* games_14d rounded to 3 decimals when games_14d > 0 and to 0.0 when it is
\* 0, likewise playtime_trend_7d_vs_14d; both are >= 0; 10/15 gives 0.667
\* and 0/0 gives 0.0.
C4_TrendRatios ==
    call.fn = "compute_trend_features" =>
        LET g7 == Get(call.features, "games_7d", 0)
            g14 == Get(call.features, "games_14d", 0)
            p7 == Get(call.features, "playtime_7d_hours", 0)
            p14 == Get(call.features, "playtime_14d_hours", 0)
            gt == result.games_trend_7d_vs_14d
            pt == result.playtime_trend_7d_vs_14d
        IN  /\ g14 > 0 => NearestThousandth(gt, g7, g14)
            /\ g14 = 0 => gt = 0
            /\ p14 > 0 => NearestThousandth(pt, p7, p14)
            /\ p14 = 0 => pt = 0
            /\ gt >= 0 /\ pt >= 0
            /\ (g7 = 10 /\ g14 = 15) => gt = 667
            /\ (g7 = 0 /\ g14 = 0) => gt = 0

\* 10 games of 15 give 0.667 while the playtime denominator is zero.
C4_Witness ==
    /\ call.fn = "compute_trend_features"
    /\ Get(call.features, "games_7d", 0) = 10
    /\ Get(call.features, "games_14d", 0) = 15
    /\ Get(call.features, "playtime_7d_hours", 0) > 0
    /\ Get(call.features, "playtime_14d_hours", 0) = 0
    /\ result.games_trend_7d_vs_14d = 667
    /\ result.playtime_trend_7d_vs_14d = 0

\* hundredths is a nearest number of hundredths to numerator / denominator.
NearestHundredth(hundredths, numerator, denominator) ==
    /\ 2 * (hundredths * denominator - 100 * numerator) <= denominator
    /\ 2 * (100 * numerator - hundredths * denominator) <= denominator

\* A term of the score, in 1/6000 points: the value, capped.
CappedTerm(units, cap_points) ==
    IF units <= cap_points * PointUnits THEN units ELSE cap_points * PointUnits

\* C19: compute_engagement_score is min(100, min(games_30d / 2, 30) +
\* min(avg_daily_sessions_30d * 30, 20) + min(games_trend_7d_vs_14d * 20, 20)
\* + win_rate_30d * 15 + min(unique_peers_30d / 3, 15)) rounded to 2
\* decimals; with win_rate_30d in [0, 1] the win-rate term is at most 15, and
\* the score is exactly 100 when every term is saturated.
C19_ScoreFormula ==
    call.fn = "compute_engagement_score" =>
        LET g == Get(call.features, "games_30d", 0)
            a == Get(call.features, "avg_daily_sessions_30d", 0)
            t == Get(call.features, "games_trend_7d_vs_14d", 0)
            w == Get(call.features, "win_rate_30d", 0)
            p == Get(call.features, "unique_peers_30d", 0)
            thousandth == PointUnits \div 1000
            recency == CappedTerm(g * (PointUnits \div 2), 30)
            regularity == CappedTerm(a * 30 * thousandth, 20)
            trend == CappedTerm(t * 20 * thousandth, 20)
            performance == w * 15 * thousandth
            social == CappedTerm(p * (PointUnits \div 3), 15)
            sum == recency + regularity + trend + performance + social
        IN  /\ NearestHundredth(result, CappedTerm(sum, 100), PointUnits)
            /\ w <= 1000 => performance <= 15 * PointUnits
            /\ (g >= 60 /\ 3 * a >= 2000 /\ t >= 1000 /\ w = 1000 /\ p >= 45)
                   => result = 100 * 100

\* Every term saturated with the win rate at 1.0: the score is 100.
C19_Witness ==
    /\ call.fn = "compute_engagement_score"
    /\ DOMAIN call.features = {"games_30d", "avg_daily_sessions_30d",
                               "games_trend_7d_vs_14d", "win_rate_30d",
                               "unique_peers_30d"}
    /\ call.features.games_30d >= 60
    /\ call.features.games_trend_7d_vs_14d >= 1000
    /\ call.features.win_rate_30d = 1000
    /\ call.features.unique_peers_30d >= 45
    /\ result = 100 * 100

\* The test's values (30 games, 0.5 sessions a day, trend 0.7, win rate
\* 0.55, 10 peers) give 15 + 15 + 14 + 8.25 + 3.33 = 55.58.
C19_TestValues ==
    /\ call.fn = "compute_engagement_score"
    /\ Get(call.features, "games_30d", 0) = 30
    /\ Get(call.features, "avg_daily_sessions_30d", 0) = 500
    /\ Get(call.features, "games_trend_7d_vs_14d", 0) = 700
    /\ Get(call.features, "win_rate_30d", 0) = 550
    /\ Get(call.features, "unique_peers_30d", 0) = 10
    /\ result = 5558

-----------------------------------------------------------------------------
(* Raw stores: what the collectors may have written under data/01_raw *)

GameKaiWins ==
    [end_time |-> RefNoon - Day,
     white |-> [username |-> <<"Kai", "NA1">>, result |-> "win", rating |-> 1500],
     black |-> [username |-> <<"zed">>, result |-> "checkmated", rating |-> 1480],
     time_class |-> "rapid"]

\* A game whose end_time the archive does not give.
GameKaiUndated ==
    [white |-> [username |-> <<"zed">>, result |-> "win", rating |-> 1485],
     black |-> [username |-> <<"Kai", "NA1">>, result |-> "resigned", rating |-> 1490],
     time_class |-> "blitz"]

\* A game of another player, whose username is kai_na1_games.
GameKaiGamesDraws ==
    [end_time |-> RefNoon - 7 * Day,
     white |-> [username |-> <<"kai", "na1", "games">>, result |-> "agreed", rating |-> 1200],
     black |-> [username |-> <<"zed">>, result |-> "agreed", rating |-> 1480],
     time_class |-> "rapid"]

MatchWon ==
    [start_time |-> RefNoon - 10 * Day, duration |-> 2400, player_slot |-> 130,
     radiant_win |-> FALSE, game_mode |-> 22]

\* A match without a start_time.
MatchUndated == [duration |-> 1800, player_slot |-> 1, radiant_win |-> FALSE]

RiotMatch ==
    [info |-> [gameCreation |-> (RefNoon - 13 * Day) * 1000, gameDuration |-> 1900,
               gameMode |-> "CLASSIC",
               participants |-> <<[puuid |-> "pu-zed", win |-> FALSE],
                                  [puuid |-> "pu-kai", win |-> TRUE]>>]]

Peers == <<[account_id |-> 9, games |-> 4], [account_id |-> 12]>>

RiotAccount == [puuid |-> "pu-kai", gameName |-> "Kai", tagLine |-> "NA1"]

\* A file that is absent, or present with one of the contents.
FileChoices(stem, contents) == {<<>>} \cup {stem :> c : c \in contents}

\* A directory is None when it does not exist, else its files by stem.
ChessDirs ==
    {None} \cup
    {Some(a @@ b) :
        a \in FileChoices(<<"kai", "na1", "games">>,
                          {<<GameKaiWins>>, <<GameKaiWins, GameKaiUndated>>}),
        b \in FileChoices(<<"kai", "na1", "games", "games">>, {<<GameKaiGamesDraws>>})}

DotaDirs ==
    {None} \cup
    {Some(a @@ b) :
        a \in FileChoices(<<"77", "matches">>, {<<MatchWon>>, <<MatchWon, MatchUndated>>}),
        b \in FileChoices(<<"77", "peers">>, {Peers})}

\* The Riot ID Kai#NA1, stored under the safe name kai_na1.
RiotDirs ==
    {None} \cup
    {Some(a @@ b) :
        a \in FileChoices(<<"kai", "na1", "account">>, {RiotAccount}),
        b \in FileChoices(<<"kai", "na1", "matches">>, {<<RiotMatch>>})}

\* The files whose text may fail to parse: none, or the games of kai_na1
\* where the directory holds them.
UnparseableChoices(c) ==
    {{}} \cup (IF c # None /\ <<"kai", "na1", "games">> \in DOMAIN c[1]
              THEN {{<<"chess_com", <<"kai", "na1", "games">>>>}}
              ELSE {})

RawStores ==
    UNION {{[chess_com |-> c, opendota |-> d, riot_lol |-> r, not_json |-> u] :
               d \in DotaDirs, r \in RiotDirs, u \in UnparseableChoices(c)} :
           c \in ChessDirs}

ClockInstants == {RefNoon, RefNoon + 600}

DefaultSettings == [churn_threshold_days |-> 14]

-----------------------------------------------------------------------------
(* The loader run against a raw store *)

MaxRuns == 2

InitLoad ==
    /\ raised = None
    /\ raw \in RawStores
    /\ clock = RefNoon
    /\ loads = <<>>
    /\ BuilderIdle
    /\ settings = DefaultSettings
    /\ df = <<>>
    /\ reference_date = None
    /\ feature_dict = <<>>
    /\ call = NoCall
    /\ result = <<>>

\* Time passes.
Tick ==
    /\ \E t \in ClockInstants : t > clock /\ clock' = t
    /\ UNCHANGED <<featureVars, settings, raw, loads, buildVars, raised>>

call_load_all_activities ==
    /\ Len(loads) < MaxRuns
    /\ IF load_all_activities_raises(raw)
       THEN /\ raised' = Some(JSONDecodeError)
            /\ loads' = loads
       ELSE /\ loads' = Append(loads, load_all_activities(raw, clock))
            /\ raised' = raised
    /\ call' = [fn |-> "load_all_activities"]
    /\ result' = IF load_all_activities_raises(raw) THEN result
                 ELSE frame_columns(load_all_activities(raw, clock))
    /\ UNCHANGED <<df, reference_date, feature_dict, settings, raw, clock, buildVars>>

NextLoad == Tick \/ call_load_all_activities

SpecLoad == InitLoad /\ [][NextLoad]_vars

-----------------------------------------------------------------------------
(* build.py: build_all_features as a process; one step per loop iteration *)

\* The key of a row of the collection or of a feature row.
key_of(row) == [player_id |-> row.player_id, platform |-> row.platform]

\* The list the loop walks when the keys are taken from every row as they
\* come, without unique().
player_platforms_every_row(frame) ==
    [i \in 1..Len(frame) |-> key_of(frame[i])]

\* activities.select("player_id", "platform").unique().to_dicts(): the
\* distinct keys as a list; unique() promises no order, and the loop below
\* takes the keys in any order.
player_platforms(frame) ==
    LET keys == {key_of(frame[i]) : i \in 1..Len(frame)}
        RECURSIVE listed(_)
        listed(rest) ==
            IF rest = {} THEN <<>>
            ELSE LET k == CHOOSE x \in rest : TRUE
                 IN  <<k>> \o listed(rest \ {k})
    IN  listed(keys)

\* A list without its i-th element.
remove_at(list, i) == SubSeq(list, 1, i - 1) \o SubSeq(list, i + 1, Len(list))

\* What a finished run leaves: the collection it read, the instant it
\* started, and the rows of the table it returned and saved.
finished_run(frame, start, rows) ==
    [activities |-> frame, started |-> start, rows |-> rows]

\* An emptiness test that never answers yes.
is_empty_never(frame) == FALSE

\* activities.is_empty()
is_empty(frame) == frame = <<>>

\* Lines 22-35: load; when nothing was found, warn and return an empty
\* table; else list the keys and enter the loop.  An exception of the load
\* is not caught and reaches the caller.
build_start ==
    /\ pc = "idle"
    /\ Len(builds) < MaxRuns
    /\ IF load_all_activities_raises(raw)
       THEN /\ raised' = Some(JSONDecodeError)
            /\ started' = clock
            /\ UNCHANGED <<pc, activities, pending, all_features, builds>>
       ELSE LET loaded == load_all_activities(raw, clock)
            IN  /\ activities' = loaded
                /\ started' = clock
                /\ all_features' = <<>>
                /\ raised' = raised
                /\ IF is_empty(loaded)
                   THEN /\ pending' = <<>>
                        /\ pc' = "idle"
                        /\ builds' = Append(builds, finished_run(loaded, clock, <<>>))
                   ELSE /\ pending' = player_platforms(loaded)
                        /\ pc' = "loop"
                        /\ builds' = builds
    /\ UNCHANGED <<featureVars, settings, raw, clock, loads>>

\* Lines 36-58: one iteration of the loop for the i-th pending key.  No
\* reference_date is passed, so the three calculators read the clock, which
\* may advance between the reads.  After the last key the table is saved
\* and returned.
build_key(i) ==
    /\ pc = "loop"
    /\ i \in 1..Len(pending)
    /\ \E n2 \in ClockInstants, n3 \in ClockInstants :
           /\ clock <= n2
           /\ n2 <= n3
           /\ clock' = n3
           /\ LET pp == pending[i]
                  features == build_features_for_player(
                                  activities, pp.player_id, pp.platform, None,
                                  raw, <<clock, n2, n3>>, settings)
                  rows == Append(all_features, features)
              IN  /\ all_features' = rows
                  /\ pending' = remove_at(pending, i)
                  /\ IF Len(pending) = 1
                     THEN /\ pc' = "idle"
                          /\ builds' = Append(builds, finished_run(activities, started, rows))
                     ELSE /\ pc' = "loop"
                          /\ builds' = builds
    /\ UNCHANGED <<featureVars, settings, raw, loads, activities, started, raised>>

InitBuild ==
    /\ raised = None
    /\ raw \in RawStores
    /\ clock = RefNoon
    /\ loads = <<>>
    /\ settings = DefaultSettings
    /\ NoFeatureCall
    /\ BuilderIdle

NextBuild ==
    \/ Tick
    \/ build_start
    \/ \E i \in DOMAIN pending : build_key(i)

SpecBuild == InitBuild /\ [][NextBuild]_vars

-----------------------------------------------------------------------------
(* Claims about the loader (SpecLoad) *)

\* C7: two runs of load_all_activities over the same unchanged raw files
\* return identical collections, whatever the files hold (records without a
\* timestamp included).  The raw store never changes in SpecLoad.
C7_LoadDeterministic ==
    Len(loads) >= 2 => loads[1] = loads[2]

\* The identifier a file is named after: its stem without the last segment.
OwnIdentifier(stem) == SubSeq(stem, 1, Len(stem) - 1)

\* The number of rows of a collection that belong to a key.
RowCount(frame, player_id, platform) ==
    Cardinality({i \in 1..Len(frame) : /\ frame[i].player_id = player_id
                                       /\ frame[i].platform = platform})

\* The files a scan of the directory discovers.
Discovered(directory, suffix) ==
    IF raw[directory] = None THEN {}
    ELSE {stem \in DOMAIN raw[directory][1] :
              Len(stem) >= 2 /\ stem[Len(stem)] = suffix}

\* C8: every discovered raw file is standardized exactly once under its own
\* identifier: the unified collection holds one Activity per record of a
\* Chess.com or OpenDota file, at most one per match of a Riot file, each
\* under the identifier the file is named after, and nothing else.
C8_NoDuplicates ==
    \A n \in 1..Len(loads) :
        /\ \A stem \in Discovered("chess_com", "games") :
               RowCount(loads[n], OwnIdentifier(stem), "chess_com")
                   = Len(raw["chess_com"][1][stem])
        /\ \A stem \in Discovered("opendota", "matches") :
               RowCount(loads[n], OwnIdentifier(stem), "opendota")
                   = Len(raw["opendota"][1][stem])
        /\ \A stem \in Discovered("riot_lol", "account") :
               LET matches == with_suffix(OwnIdentifier(stem), "matches")
               IN  RowCount(loads[n], OwnIdentifier(stem), "riot_lol")
                       <= IF matches \in DOMAIN raw["riot_lol"][1]
                          THEN Len(raw["riot_lol"][1][matches]) ELSE 0
        /\ \A i \in 1..Len(loads[n]) :
               \/ /\ loads[n][i].platform = "chess_com"
                  /\ with_suffix(loads[n][i].player_id, "games")
                         \in Discovered("chess_com", "games")
               \/ /\ loads[n][i].platform = "opendota"
                  /\ with_suffix(loads[n][i].player_id, "matches")
                         \in Discovered("opendota", "matches")
               \/ /\ loads[n][i].platform = "riot_lol"
                  /\ with_suffix(loads[n][i].player_id, "account")
                         \in Discovered("riot_lol", "account")

-----------------------------------------------------------------------------
(* Claims about the builder (SpecBuild) *)

\* The rows of a table as a set.
RowSet(rows) == {rows[i] : i \in 1..Len(rows)}

OwnSnapshot(frame, k, instant) ==
    build_features_for_player(player_filter(frame, k.player_id, k.platform),
                              k.player_id, k.platform, None, raw,
                              <<instant, instant, instant>>, settings)

\* C9: every row of a finished run is determined by the activities of its
\* own key and the instant of the run, so that the set of rows is the same
\* whatever the order in which the loop takes the keys and however its
\* iterations are spread in time.
C9_RowsIndependentOfSchedule ==
    \A n \in 1..Len(builds) :
        \A i \in 1..Len(builds[n].rows) :
            builds[n].rows[i]
                = OwnSnapshot(builds[n].activities, key_of(builds[n].rows[i]),
                              builds[n].started)

\* The part of C9 that the code keeps: an iteration never modifies the merged
\* collection, and the row it appends is the one the key's own activities
\* give under the instants the iteration read.
C9_OwnActivitiesOnly ==
    [][(pc = "loop" /\ Len(all_features') = Len(all_features) + 1)
          => /\ activities' = activities
             /\ \E i \in 1..Len(pending), n2 \in ClockInstants :
                    all_features'[Len(all_features')]
                        = build_features_for_player(
                              player_filter(activities, pending[i].player_id,
                                            pending[i].platform),
                              pending[i].player_id, pending[i].platform, None,
                              raw, <<clock, n2, clock'>>, settings)]_vars

\* The number of rows of a table that carry a key.
KeyCount(rows, k) == Cardinality({i \in 1..Len(rows) : key_of(rows[i]) = k})

\* C10: a finished run holds exactly one row for each distinct
\* (player_id, platform) pair of the collection it loaded, and no row for
\* any other pair.
C10_OneRowPerPair ==
    \A n \in 1..Len(builds) :
        LET pairs == {key_of(builds[n].activities[i]) :
                          i \in 1..Len(builds[n].activities)}
        IN  /\ \A k \in pairs : KeyCount(builds[n].rows, k) = 1
            /\ \A i \in 1..Len(builds[n].rows) : key_of(builds[n].rows[i]) \in pairs

\* A finished run over a collection in which one pair has several activities
\* and one player_id occurs on two platforms.
C10_Witness ==
    \E n \in 1..Len(builds) :
        /\ Len(builds[n].rows) = 3
        /\ Len(builds[n].activities) > 3
        /\ \E i, j \in 1..3 :
               /\ builds[n].rows[i].player_id = builds[n].rows[j].player_id
               /\ builds[n].rows[i].platform # builds[n].rows[j].platform

-----------------------------------------------------------------------------
(* Claims about the windows, the trend and the churn label (SpecFeatures) *)

\* compute_time_window_features followed by compute_trend_features, as
\* build_features_for_player chains them.
TrendPipeline(frame, k, ref) ==
    compute_trend_features(
        compute_time_window_features(frame, k.player_id, k.platform, Some(ref), Unread))

RowsInWindow(w) ==
    {i \in OwnRows : /\ df[i].game_timestamp >= RefInstant - w * Day
                     /\ df[i].game_timestamp <= RefInstant}

\* The collection without the activities later than the reference instant.
NotLater == SelectSeq(df, LAMBDA a : a.game_timestamp <= RefInstant)

\* C12: every window ends at the reference instant: an activity later than
\* the reference instant is counted in none of games_w, playtime_w_hours,
\* avg_daily_sessions_w, max_gap_days_30d and win_rate_w, so that these
\* fields are what the collection without such activities gives.
C12_WindowsEndAtReference ==
    /\ call.fn = "compute_time_window_features" =>
           /\ result.games_7d = Cardinality(RowsInWindow(7))
           /\ result.games_14d = Cardinality(RowsInWindow(14))
           /\ result.games_30d = Cardinality(RowsInWindow(30))
           /\ result = compute_time_window_features(
                           NotLater, call.player_id, call.platform,
                           reference_date, Unread)
    /\ call.fn = "compute_performance_features" =>
           LET expected == compute_performance_features(
                               NotLater, call.player_id, call.platform,
                               reference_date, Unread)
           IN  /\ result.win_rate_7d = expected.win_rate_7d
               /\ result.win_rate_30d = expected.win_rate_30d

\* The rows of the called key at or after the cutoff of the window of w days.
RowsSince(w) ==
    {i \in OwnRows : df[i].game_timestamp >= RefInstant - w * Day}

RECURSIVE SumOfDurations(_)
\* The sum of duration_seconds over a set of rows of df.
SumOfDurations(rows) ==
    IF rows = {} THEN 0
    ELSE LET i == CHOOSE x \in rows : TRUE
         IN  df[i].duration_seconds + SumOfDurations(rows \ {i})

\* C13: for each w in {7, 14, 30}, games_w is the number of the key's
\* activities with timestamp >= reference - w days (one exactly at the cutoff
\* included) and playtime_w_hours is the sum of their duration_seconds
\* divided by 3600, rounded to 2 decimals; 20 won games of 1800 s spread
\* over the last 25 days give games_30d = 20, playtime_30d_hours = 10.0 and
\* win_rate_30d = 1.0.
C13_WindowCounts ==
    call.fn \in {"compute_time_window_features", "build_features_for_player"} =>
        /\ result.games_7d = Cardinality(RowsSince(7))
        /\ result.games_14d = Cardinality(RowsSince(14))
        /\ result.games_30d = Cardinality(RowsSince(30))
        /\ NearestHundredth(result.playtime_7d_hours, SumOfDurations(RowsSince(7)), Hour)
        /\ NearestHundredth(result.playtime_14d_hours, SumOfDurations(RowsSince(14)), Hour)
        /\ NearestHundredth(result.playtime_30d_hours, SumOfDurations(RowsSince(30)), Hour)
        /\ (/\ df = TwentyGames
            /\ RefInstant = RefNoon
            /\ call.fn = "build_features_for_player"
            /\ call.player_id = <<"ann">>
            /\ call.platform = "chess_com")
               => /\ result.games_30d = 20
                  /\ result.playtime_30d_hours = 1000
                  /\ result.win_rate_30d = 1000

\* The scenario of the 20 games has been computed, and one of the games
\* counted in the 7-day window lies in its last day.
C13_Witness ==
    /\ df = TwentyGames
    /\ RefInstant = RefNoon
    /\ call.fn = "build_features_for_player"
    /\ call.player_id = <<"ann">>
    /\ result.games_30d = 20
    /\ result.games_7d > 0
    /\ result.games_7d < result.games_14d

\* A game exactly on the 7-day cutoff is counted in games_7d.
C13_OnCutoff ==
    /\ call.fn = "compute_time_window_features"
    /\ RefInstant = RefNoon
    /\ \E i \in OwnRows : df[i].game_timestamp = RefNoon - 7 * Day
    /\ Cardinality(OwnRows) = 1
    /\ result.games_7d = 1

\* The differences, in seconds, between the timestamps of two rows of the
\* set that follow each other in timestamp order.
ConsecutiveGaps(rows) ==
    {df[j].game_timestamp - df[i].game_timestamp :
        <<i, j>> \in {p \in rows \X rows :
                         /\ p[1] # p[2]
                         /\ df[p[1]].game_timestamp <= df[p[2]].game_timestamp
                         /\ ~\E k \in rows :
                               /\ df[p[1]].game_timestamp < df[k].game_timestamp
                               /\ df[k].game_timestamp < df[p[2]].game_timestamp}}

\* C14: max_gap_days_30d is the largest difference in days between
\* consecutive timestamps of the key's activities of the 30-day window
\* (timestamp >= reference - 30 days, as in C13) taken in timestamp order,
\* rounded to 2 decimals, and the sentinel 30.0 whenever fewer than 2 of the
\* key's activities fall in that window, whatever older activities exist.
C14_MaxGap ==
    call.fn \in {"compute_time_window_features", "build_features_for_player"} =>
        IF Cardinality(RowsSince(30)) < 2
        THEN result.max_gap_days_30d = 3000
        ELSE NearestHundredth(result.max_gap_days_30d,
                              SetMax(ConsecutiveGaps(RowsSince(30))), Day)

\* Three games given out of order, with gaps of 23 and 6 days.
C14_Witness ==
    /\ df = ThreeGames
    /\ RefInstant = RefNoon
    /\ call.fn = "compute_time_window_features"
    /\ call.player_id = <<"ann">>
    /\ result.max_gap_days_30d = 2300

\* One game in the window and an older one outside it: the sentinel.
C14_SentinelWithOlderGames ==
    /\ call.fn = "compute_time_window_features"
    /\ Cardinality(OwnRows) = 2
    /\ Cardinality(RowsSince(30)) = 1
    /\ result.max_gap_days_30d = 3000

\* The won games among a set of rows of df.
Wins(rows) == {i \in rows : df[i].result = "win"}

\* The win rate of the window of w days, as C15 states it.
WinRateAsStated(rate, w) ==
    /\ rate >= 0
    /\ rate <= 1000
    /\ IF RowsSince(w) = {}
       THEN rate = 0
       ELSE NearestThousandth(rate, Cardinality(Wins(RowsSince(w))),
                                Cardinality(RowsSince(w)))

\* C15: for w in {7, 30}, win_rate_w is the number of the key's activities of
\* the window (timestamp >= reference - w days, as in C13) with result = win
\* over the number of all the key's activities of the window, rounded to 3
\* decimals; draws, losses and unknown results count in the denominator
\* only; the rate is 0.0 for an empty window and always lies in [0, 1].
C15_WinRate ==
    call.fn \in {"compute_performance_features", "build_features_for_player"} =>
        /\ WinRateAsStated(result.win_rate_7d, 7)
        /\ WinRateAsStated(result.win_rate_30d, 30)

\* A win, an unknown result and a loss: 1/3 over 30 days, 1/2 over 7 days.
C15_Witness ==
    /\ df = ThreeGames
    /\ RefInstant = RefNoon
    /\ call.fn = "compute_performance_features"
    /\ call.player_id = <<"ann">>
    /\ result.win_rate_30d = 333
    /\ result.win_rate_7d = 500

\* The rated rows of the called key.
RatedRows == {i \in OwnRows : df[i].rating # None}

\* The rows of a set that no row of the set follows in time.
Latest(rows) ==
    {i \in rows : \A j \in rows : df[j].game_timestamp <= df[i].game_timestamp}

\* The rated rows of the called key at or before the 30-day cutoff.
RatedAtOrBeforeCutoff ==
    {i \in RatedRows : df[i].game_timestamp <= RefInstant - 30 * Day}

\* C16: rating_current is the rating of the key's rated activity with the
\* greatest timestamp (null when the key has none) and rating_change_30d is
\* rating_current minus the rating of the latest rated activity at or before
\* reference - 30 days; it is 0 when there is no such activity or when
\* rating_current is null.  Among rated activities of equal timestamp
\* either may be the latest.
C16_Rating ==
    call.fn \in {"compute_performance_features", "build_features_for_player"} =>
        IF RatedRows = {}
        THEN result.rating_current = None /\ result.rating_change_30d = 0
        ELSE /\ \E i \in Latest(RatedRows) : result.rating_current = df[i].rating
             /\ IF RatedAtOrBeforeCutoff = {}
                THEN result.rating_change_30d = 0
                ELSE \E j \in Latest(RatedAtOrBeforeCutoff) :
                         result.rating_change_30d
                             = result.rating_current[1] - df[j].rating[1]

\* Two rated games, 1450 at or before the cutoff and 1500 after it: the
\* current rating is 1500 and the change is 50.
C16_Witness ==
    /\ call.fn = "compute_performance_features"
    /\ Cardinality(RatedRows) = 2
    /\ Cardinality(RatedAtOrBeforeCutoff) = 1
    /\ result.rating_current = Some(1500)
    /\ result.rating_change_30d = 50

\* The rated rows of the called key strictly before the 30-day cutoff.
RatedBeforeCutoff ==
    {i \in RatedRows : df[i].game_timestamp < RefInstant - 30 * Day}

\* The rated rows of the called key exactly on the 30-day cutoff.
RatedOnCutoff ==
    {i \in RatedRows : df[i].game_timestamp = RefInstant - 30 * Day}

\* C17 as claimed: the baseline of rating_change_30d is the last known
\* rating strictly before the 30-day cutoff; a rated activity exactly at
\* reference - 30 days is not the baseline, and the change is 0 when no
\* rated activity lies strictly before the cutoff.
C17_BaselineStrictlyBefore ==
    call.fn \in {"compute_performance_features", "build_features_for_player"} =>
        IF RatedBeforeCutoff = {}
        THEN result.rating_change_30d = 0
        ELSE \E j \in Latest(RatedBeforeCutoff) :
                 result.rating_change_30d
                     = result.rating_current[1] - df[j].rating[1]

\* C17 as amended: the baseline is the last known rating at or before the
\* 30-day cutoff; a rated activity exactly at reference - 30 days is the
\* baseline (it is the latest one at or before the cutoff), and the change
\* is 0 when no rated activity lies at or before the cutoff.
C17_BaselineOnCutoff ==
    call.fn \in {"compute_performance_features", "build_features_for_player"} =>
        /\ RatedOnCutoff # {} =>
               \E j \in RatedOnCutoff :
                   result.rating_change_30d
                       = result.rating_current[1] - df[j].rating[1]
        /\ (RatedOnCutoff = {} /\ RatedBeforeCutoff = {}) =>
               result.rating_change_30d = 0

\* The only rated game at or before the cutoff lies exactly on it (1480),
\* the current rating is 1520: the change is 40.
C17_Witness ==
    /\ df = ThreeGames
    /\ RefInstant = RefNoon
    /\ call.fn = "compute_performance_features"
    /\ call.player_id = <<"ann">>
    /\ RatedBeforeCutoff = {}
    /\ result.rating_change_30d = 40

\* C18: for a player with at least one activity and any reference instant,
\* compute_churn_label emits days_since_last_game >= 0, equal to the
\* reference instant minus the latest timestamp of the key, in days rounded
\* to 2 decimals.
C18_DaysSinceNonNegative ==
    (call.fn = "compute_churn_label" /\ OwnRows # {}) =>
        /\ result.days_since_last_game >= 0
        /\ \E i \in Latest(OwnRows) :
               NearestHundredth(result.days_since_last_game,
                                RefInstant - df[i].game_timestamp, Day)

\* A peers file exists in the raw store under the identifier of the call.
PeersFileExists ==
    /\ raw["opendota"] # None
    /\ (call.player_id \o <<"peers">>) \in DOMAIN raw["opendota"][1]

\* C20: for every platform other than opendota build_features_for_player
\* yields unique_peers_30d = 0 and peer_games_30d = 0 whatever the raw store
\* holds, a peers file under the same identifier included; for opendota a
\* missing peers file yields 0 for both fields, without an error.
C20_SocialFields ==
    call.fn = "build_features_for_player" =>
        /\ call.platform # "opendota" =>
               (result.unique_peers_30d = 0 /\ result.peer_games_30d = 0)
        /\ (call.platform = "opendota" /\ ~PeersFileExists) =>
               (result.unique_peers_30d = 0 /\ result.peer_games_30d = 0)

\* A Chess.com player under whose identifier a peers file exists.
C20_Witness ==
    /\ call.fn = "build_features_for_player"
    /\ call.platform = "chess_com"
    /\ PeersFileExists
    /\ OwnRows # {}
    /\ result.unique_peers_30d = 0
    /\ result.peer_games_30d = 0

\* An opendota player without a peers file, the directory being there or not.
C20_MissingPeers ==
    /\ call.fn = "build_features_for_player"
    /\ call.platform = "opendota"
    /\ ~PeersFileExists
    /\ OwnRows # {}
    /\ result.unique_peers_30d = 0

\* An opendota player with a peers file: two peers, four games.
C20_PeersRead ==
    /\ call.fn = "build_features_for_player"
    /\ call.platform = "opendota"
    /\ PeersFileExists
    /\ result.unique_peers_30d = 2
    /\ result.peer_games_30d = 4


\* ---------------------------------------------------------------------------
\* The columns of a snapshot.
\* ---------------------------------------------------------------------------

\* The feature columns the training step selects from a snapshot table.
FEATURE_COLS ==
    {"games_7d", "games_14d", "games_30d",
     "playtime_7d_hours", "playtime_14d_hours", "playtime_30d_hours",
     "avg_daily_sessions_7d", "avg_daily_sessions_14d", "avg_daily_sessions_30d",
     "max_gap_days_30d", "games_trend_7d_vs_14d", "playtime_trend_7d_vs_14d",
     "win_rate_7d", "win_rate_30d", "rating_change_30d",
     "unique_peers_30d", "peer_games_30d", "engagement_score",
     "days_since_last_game"}

\* The label column of the training step.
TARGET_COL == "churned"

\* The keys test_build_features_complete expects of a snapshot.
expected_keys ==
    {"player_id", "platform", "games_7d", "games_14d", "games_30d",
     "playtime_7d_hours", "playtime_14d_hours", "playtime_30d_hours",
     "avg_daily_sessions_7d", "avg_daily_sessions_14d", "avg_daily_sessions_30d",
     "max_gap_days_30d", "games_trend_7d_vs_14d", "playtime_trend_7d_vs_14d",
     "win_rate_7d", "win_rate_30d", "rating_current", "rating_change_30d",
     "unique_peers_30d", "peer_games_30d", "engagement_score",
     "days_since_last_game", "churned"}

\* C21: build_features_for_player returns the same 23 keys for every platform
\* and every collection, the key without any activity included, and those
\* keys contain every column of FEATURE_COLS and the label column.
C21_SameKeys ==
    call.fn = "build_features_for_player" =>
        /\ DOMAIN result = expected_keys
        /\ Cardinality(DOMAIN result) = 23
        /\ FEATURE_COLS \subseteq DOMAIN result
        /\ TARGET_COL \in DOMAIN result

\* A snapshot of a key that has no activity in the collection, which is not
\* empty.
C21_Witness ==
    /\ call.fn = "build_features_for_player"
    /\ OwnRows = {}
    /\ df # <<>>
    /\ Cardinality(DOMAIN result) = 23


\* ---------------------------------------------------------------------------
\* Missing and unreadable raw data (SpecBuild, SpecLoad).
\* ---------------------------------------------------------------------------

Platforms == {"chess_com", "opendota", "riot_lol"}

\* No platform has any raw file: each directory is missing or empty.
StoreWithoutData ==
    \A d \in Platforms : raw[d] = None \/ DOMAIN raw[d][1] = {}

\* C22 (as claimed): when the merged collection cannot be produced because
\* no platform has any raw data, build_all_features ends with an error and
\* never returns normally.
C22_FailsFastWithoutData ==
    StoreWithoutData => builds = <<>>

\* C22 (amended): over a raw store without data build_all_features warns and
\* returns an empty table: no error reaches the caller, the per-key loop is
\* not entered, and every finished run holds an empty collection and no row.
C22_ReturnsEmptyTable ==
    StoreWithoutData =>
        /\ raised = None
        /\ pc = "idle"
        /\ \A n \in DOMAIN builds :
               builds[n].activities = <<>> /\ builds[n].rows = <<>>

\* A run over a raw store without data has returned.
C22_Witness ==
    /\ StoreWithoutData
    /\ builds # <<>>
    /\ builds[1].rows = <<>>
    /\ raised = None


\* The records a present Riot account can be given: those of its matches
\* file, none when that file is missing.
RiotRecords(stem) ==
    LET matches == with_suffix(OwnIdentifier(stem), "matches")
    IN  IF matches \in DOMAIN raw["riot_lol"][1]
        THEN Len(raw["riot_lol"][1][matches]) ELSE 0

\* C23: absence of raw data is never an error.  Over any subset of the
\* platform directories and player files, every present file being
\* well-formed, load_all_activities returns normally, and what it returns
\* is exactly the activities of the data that is present: the records of
\* each present file under the identifier of that file, and none for a
\* missing file (a Riot account without its matches file included).
C23_AbsenceNotAnError ==
    raw["not_json"] = {} =>
        /\ raised = None
        /\ \A n \in 1..Len(loads) :
               /\ \A stem \in Discovered("chess_com", "games") :
                      RowCount(loads[n], OwnIdentifier(stem), "chess_com")
                          = Len(raw["chess_com"][1][stem])
               /\ \A stem \in Discovered("opendota", "matches") :
                      RowCount(loads[n], OwnIdentifier(stem), "opendota")
                          = Len(raw["opendota"][1][stem])
               /\ \A stem \in Discovered("riot_lol", "account") :
                      RowCount(loads[n], OwnIdentifier(stem), "riot_lol")
                          = RiotRecords(stem)

\* The part of C23 the code keeps: no subset of well-formed files makes the
\* load raise, and a Riot account without its matches file gives no row.
C23_AbsenceRaisesNothing ==
    raw["not_json"] = {} =>
        /\ raised = None
        /\ \A n \in 1..Len(loads) :
               \A stem \in Discovered("riot_lol", "account") :
                   RowCount(loads[n], OwnIdentifier(stem), "riot_lol")
                       = RiotRecords(stem)


\* C24: a raw file that cannot be parsed makes the standardizer that reads
\* it return an empty set, not raise, and does not abort load_all_activities
\* for the other players and platforms: no exception reaches the caller,
\* and every load holds no row of the unparseable file and the rows of the
\* OpenDota files.
C24_UnparseableFileSkipped ==
    raw["not_json"] # {} =>
        /\ raised = None
        /\ \A n \in 1..Len(loads) :
               /\ \A f \in raw["not_json"] :
                      RowCount(loads[n], OwnIdentifier(f[2]), f[1]) = 0
               /\ \A stem \in Discovered("opendota", "matches") :
                      RowCount(loads[n], OwnIdentifier(stem), "opendota")
                          = Len(raw["opendota"][1][stem])


-----------------------------------------------------------------------------
(* The standardizers applied to single raw files *)

\* Result codes of the Chess.com archive, and a player entry without one.
ChessResults ==
    {"win", "checkmated", "timeout", "resigned", "abandoned", "agreed",
     "stalemate", "repetition", "insufficient", "timevsinsufficient",
     "50move", MissingText}

ChessPlayer(username, game_result, rating) ==
    IF game_result = MissingText
    THEN [username |-> username, rating |-> rating]
    ELSE [username |-> username, result |-> game_result, rating |-> rating]

\* A game of the archive of Kai_NA1 in which Kai_NA1 plays the given side,
\* or ("none") a game between two other players.
ChessGame(side, game_result, opponent_result) ==
    LET subject == ChessPlayer(<<"Kai", "NA1">>, game_result, 1500)
        opponent == ChessPlayer(<<"zed">>, opponent_result, 1480)
        stranger == ChessPlayer(<<"bob">>, game_result, 1510)
    IN  [end_time |-> RefNoon - Day,
         white |-> IF side = "white" THEN subject ELSE opponent,
         black |-> IF side = "black" THEN subject
                   ELSE IF side = "white" THEN opponent ELSE stranger,
         time_class |-> "rapid"]

ChessGames ==
    {ChessGame(side, r, o) :
        side \in {"white", "black", "none"}, r \in ChessResults, o \in {"win", "agreed"}}

\* One game, or a game between others followed by a game of Kai_NA1.
ChessFiles ==
    {<<g>> : g \in ChessGames}
    \cup {<<ChessGame("none", "win", "resigned"), ChessGame(side, "timeout", "win")>> :
             side \in {"white", "black"}}

DotaMatch(player_slot, radiant_win) ==
    LET base == [start_time |-> RefNoon - 2 * Day, duration |-> 2400, game_mode |-> 22]
        slot == IF player_slot = None THEN <<>> ELSE [player_slot |-> player_slot[1]]
        win == IF radiant_win = None THEN <<>> ELSE [radiant_win |-> radiant_win[1]]
    IN  base @@ slot @@ win

DotaFiles ==
    {<<DotaMatch(s, w)>> :
        s \in {None, Some(0), Some(4), Some(127), Some(128), Some(132)},
        w \in {None, Some(TRUE), Some(FALSE)}}

\* A participant entry of Kai#NA1 with the given win flag (None: no flag).
RiotParticipant(puuid, win) ==
    IF win = None THEN [puuid |-> puuid] ELSE [puuid |-> puuid, win |-> win[1]]

\* A match in which Kai#NA1 takes part ("first", "last") or does not
\* ("none"); one further participant carries no puuid.
RiotGame(place, win) ==
    LET subject == RiotParticipant("pu-kai", win)
        other == RiotParticipant("pu-zed", Some(TRUE))
        unnamed == [win |-> TRUE]
    IN  [info |-> [gameCreation |-> (RefNoon - 20 * Day) * 1000,
                   gameDuration |-> 1900,
                   gameMode |-> "CLASSIC",
                   participants |-> IF place = "first" THEN <<subject, other, unnamed>>
                                    ELSE IF place = "last" THEN <<unnamed, other, subject>>
                                    ELSE <<unnamed, other>>]]

RiotGames ==
    {RiotGame(place, w) :
        place \in {"first", "last", "none"}, w \in {None, Some(TRUE), Some(FALSE)}}

RiotFiles ==
    {<<g>> : g \in RiotGames}
    \cup {<<RiotGame("none", None), g>> : g \in RiotGames}

NoDirs == [chess_com |-> None, opendota |-> None, riot_lol |-> None, not_json |-> {}]

\* Raw stores that hold the file of one player of one platform, well-formed
\* or not.
RecordStores ==
    {[NoDirs EXCEPT !["chess_com"] = Some(<<"kai", "na1", "games">> :> f)] :
        f \in ChessFiles}
    \cup {[NoDirs EXCEPT !["opendota"] = Some(<<"77", "matches">> :> f)] :
             f \in DotaFiles}
    \cup {[NoDirs EXCEPT !["riot_lol"] = Some((<<"kai", "na1", "account">> :> RiotAccount)
                                              @@ (<<"kai", "na1", "matches">> :> f))] :
             f \in RiotFiles}
    \cup {[NoDirs EXCEPT !["chess_com"] = Some(<<"kai", "na1", "games">> :> <<>>),
                         !["not_json"] = {<<"chess_com", <<"kai", "na1", "games">>>>}],
          [NoDirs EXCEPT !["opendota"] = Some(<<"77", "matches">> :> <<>>),
                         !["not_json"] = {<<"opendota", <<"77", "matches">>>>}],
          [NoDirs EXCEPT !["riot_lol"] = Some((<<"kai", "na1", "account">> :> RiotAccount)
                                              @@ (<<"kai", "na1", "matches">> :> <<>>)),
                         !["not_json"] = {<<"riot_lol", <<"kai", "na1", "matches">>>>}]}

InitStandardize ==
    /\ raised = None
    /\ raw \in RecordStores
    /\ clock = RefNoon
    /\ loads = <<>>
    /\ settings = DefaultSettings
    /\ NoFeatureCall
    /\ BuilderIdle

\* The username as the loader passes it (from the file name) and as the
\* archive spells it.
Usernames == {<<"kai", "na1">>, <<"Kai", "NA1">>}

call_standardize_chess_com(username) ==
    /\ call = NoCall
    /\ call' = [fn |-> "standardize_chess_com", username |-> username]
    /\ IF standardize_chess_com_raises(username, raw)
       THEN raised' = Some(JSONDecodeError) /\ result' = result
       ELSE raised' = raised /\ result' = standardize_chess_com(username, raw, clock)
    /\ UNCHANGED <<df, reference_date, settings, raw, feature_dict, clock, loads, buildVars>>

call_standardize_opendota ==
    /\ call = NoCall
    /\ call' = [fn |-> "standardize_opendota", account_id |-> <<"77">>]
    /\ IF standardize_opendota_raises(<<"77">>, raw)
       THEN raised' = Some(JSONDecodeError) /\ result' = result
       ELSE raised' = raised /\ result' = standardize_opendota(<<"77">>, raw, clock)
    /\ UNCHANGED <<df, reference_date, settings, raw, feature_dict, clock, loads, buildVars>>

call_standardize_riot ==
    /\ call = NoCall
    /\ call' = [fn |-> "standardize_riot", game_name |-> <<"Kai">>, tag_line |-> <<"NA1">>]
    /\ IF standardize_riot_raises(<<"Kai">>, <<"NA1">>, raw)
       THEN raised' = Some(JSONDecodeError) /\ result' = result
       ELSE raised' = raised /\ result' = standardize_riot(<<"Kai">>, <<"NA1">>, raw)
    /\ UNCHANGED <<df, reference_date, settings, raw, feature_dict, clock, loads, buildVars>>

NextStandardize ==
    \/ \E username \in Usernames : call_standardize_chess_com(username)
    \/ call_standardize_opendota
    \/ call_standardize_riot

SpecStandardize == InitStandardize /\ [][NextStandardize]_vars


-----------------------------------------------------------------------------
(* Claims about the standardizers (SpecStandardize) *)

\* The file of the store's Chess.com player, and of its Riot player.
ChessFile == load_json(raw, "chess_com", <<"kai", "na1", "games">>)

RiotFile == load_json(raw, "riot_lol", <<"kai", "na1", "matches">>)

\* The sides of a game on which the username plays, letter case aside.
SubjectSides(game, username) ==
    {side \in {"white", "black"} :
        /\ side \in DOMAIN game
        /\ "username" \in DOMAIN game[side]
        /\ lower(game[side]["username"]) = lower(username)}

\* The matches of a file in which a participant carries the puuid.
MatchesOf(matches, puuid) ==
    {i \in DOMAIN matches :
        \E p \in DOMAIN matches[i].info.participants :
            /\ "puuid" \in DOMAIN matches[i].info.participants[p]
            /\ matches[i].info.participants[p].puuid = puuid}

\* C25: a record in which the subject player cannot be identified (Riot: no
\* participant with the account's puuid; Chess.com: the username on neither
\* side) produces no Activity and no error, and the other records of the
\* file are standardized: the standardizer returns one Activity per record
\* that names the subject.
C25_UnidentifiedSkipped ==
    raw["not_json"] = {} =>
        /\ raised = None
        /\ (call.fn = "standardize_chess_com" /\ raw["chess_com"] # None) =>
               Len(result) = Cardinality({i \in DOMAIN ChessFile :
                                             SubjectSides(ChessFile[i], call.username) # {}})
        /\ (call.fn = "standardize_riot" /\ raw["riot_lol"] # None) =>
               Len(result) = Cardinality(MatchesOf(RiotFile, RiotAccount.puuid))

\* The Riot half of C25, which the code keeps.
C25_RiotSkipsUnidentified ==
    raw["not_json"] = {} =>
        /\ raised = None
        /\ (call.fn = "standardize_riot" /\ raw["riot_lol"] # None) =>
               Len(result) = Cardinality(MatchesOf(RiotFile, RiotAccount.puuid))

\* A Riot file whose first match lacks the subject and whose second has it
\* has given one Activity.
C25_RiotSecondMatchKept ==
    /\ call.fn = "standardize_riot"
    /\ raw["riot_lol"] # None
    /\ raw["not_json"] = {}
    /\ Len(RiotFile) = 2
    /\ MatchesOf(RiotFile, RiotAccount.puuid) = {2}
    /\ Len(result) = 1


\* The k-th smallest element of a set of numbers.
NthOf(numbers, k) ==
    CHOOSE i \in numbers : Cardinality({j \in numbers : j <= i}) = k

\* The first participant of a match that carries the puuid.
SubjectEntry(match, puuid) ==
    LET entries == match.info.participants
        hits == {p \in DOMAIN entries :
                    "puuid" \in DOMAIN entries[p] /\ entries[p].puuid = puuid}
    IN  entries[NthOf(hits, 1)]

\* The outcome the spec states for a Chess.com result code.
ChessOutcomeAsStated(code) ==
    IF code = "win" THEN "win"
    ELSE IF code \in {"checkmated", "timeout", "resigned", "abandoned"} THEN "loss"
    ELSE "draw"

\* C26: outcome classification.  Chess.com: win when the player's result
\* code is win, loss when it is checkmated, timeout, resigned or abandoned,
\* draw for every other code.  OpenDota: win exactly when the player's side
\* (radiant iff player_slot < 128) is the winning side, else loss.  Riot:
\* win exactly when the participant's win flag is true, else loss.
C26_OutcomeClassification ==
    raw["not_json"] = {} =>
        /\ (call.fn = "standardize_chess_com" /\ raw["chess_com"] # None) =>
               \A i \in DOMAIN ChessFile :
                   \A side \in SubjectSides(ChessFile[i], call.username) :
                       /\ i \in DOMAIN result
                       /\ result[i].result =
                              ChessOutcomeAsStated(
                                  IF "result" \in DOMAIN ChessFile[i][side]
                                  THEN ChessFile[i][side]["result"]
                                  ELSE MissingText)
        /\ (call.fn = "standardize_opendota" /\ raw["opendota"] # None) =>
               LET matches == load_json(raw, "opendota", <<"77", "matches">>)
               IN  \A i \in DOMAIN matches :
                       ("player_slot" \in DOMAIN matches[i]
                            /\ "radiant_win" \in DOMAIN matches[i]) =>
                           /\ i \in DOMAIN result
                           /\ result[i].result \in {"win", "loss"}
                           /\ (result[i].result = "win")
                                  <=> ((matches[i].player_slot < 128)
                                           <=> matches[i].radiant_win)
        /\ (call.fn = "standardize_riot" /\ raw["riot_lol"] # None) =>
               LET own == MatchesOf(RiotFile, RiotAccount.puuid)
               IN  /\ Len(result) = Cardinality(own)
                   /\ \A k \in DOMAIN result :
                          LET entry == SubjectEntry(RiotFile[NthOf(own, k)],
                                                    RiotAccount.puuid)
                          IN  /\ result[k].result \in {"win", "loss"}
                              /\ (result[k].result = "win")
                                     <=> ("win" \in DOMAIN entry /\ entry.win)

\* A game Kai_NA1 lost on time with the black pieces, asked for under the
\* lower-case name, is a loss.
C26_Witness ==
    /\ call.fn = "standardize_chess_com"
    /\ call.username = <<"kai", "na1">>
    /\ raw["chess_com"] # None
    /\ raw["not_json"] = {}
    /\ Len(ChessFile) = 1
    /\ SubjectSides(ChessFile[1], call.username) = {"black"}
    /\ Get(ChessFile[1].black, "result", MissingText) = "timeout"
    /\ Len(result) = 1
    /\ result[1].result = "loss"

\* A dire player (slot 132) whose match radiant lost has won.
C26_DireWin ==
    /\ call.fn = "standardize_opendota"
    /\ raw["opendota"] # None
    /\ raw["not_json"] = {}
    /\ Len(result) = 1
    /\ result[1].result = "win"
    /\ Get(load_json(raw, "opendota", <<"77", "matches">>)[1], "player_slot", 0) = 132

\* A Riot participant without a win flag has lost.
C26_RiotNoFlag ==
    /\ call.fn = "standardize_riot"
    /\ raw["riot_lol"] # None
    /\ raw["not_json"] = {}
    /\ Len(RiotFile) = 1
    /\ MatchesOf(RiotFile, RiotAccount.puuid) = {1}
    /\ "win" \notin DOMAIN SubjectEntry(RiotFile[1], RiotAccount.puuid)
    /\ Len(result) = 1
    /\ result[1].result = "loss"


-----------------------------------------------------------------------------
(* Claims about the configuration and the label (SpecFeatures) *)

\* C27: a negative churn_threshold_days is rejected when the settings are
\* loaded at startup: the program never runs with a negative threshold, and
\* no churn label is ever computed with one.
C27_NegativeThresholdRejected ==
    call.fn \in {"compute_churn_label", "build_features_for_player"} =>
        settings.churn_threshold_days >= 0

\* What the loader of the settings does reject: a text that is no integer.
C27_NonIntegerRejected ==
    /\ Settings(Some(NotANumber)) = None
    /\ \A d \in Thresholds : Settings(Some(IntegerText(d))) # None
    /\ settings \in LoadedSettings


-----------------------------------------------------------------------------
(* Claims about the loaded collection (SpecLoad) *)

\* The fields of schema.PlayerActivity.
CanonicalColumns ==
    {"player_id", "platform", "game_timestamp", "duration_seconds",
     "result", "rating", "game_mode"}

\* C28: the collection load_all_activities returns is ordered by
\* game_timestamp, non-decreasing, for every set of raw files, and is the
\* empty collection with the seven canonical columns when no activity
\* exists.
C28_OrderedOrEmptySchema ==
    /\ \A n \in DOMAIN loads :
           \A i \in DOMAIN loads[n] : \A j \in DOMAIN loads[n] :
               i < j => loads[n][i].game_timestamp <= loads[n][j].game_timestamp
    /\ (call.fn = "load_all_activities" /\ loads # <<>>) =>
           /\ result = CanonicalColumns
           /\ Cardinality(result) = 7

\* A load in which the older OpenDota match comes before the Chess.com game
\* that the concatenation put first.
C28_Witness ==
    /\ call.fn = "load_all_activities"
    /\ loads # <<>>
    /\ Len(loads[1]) >= 2
    /\ loads[1][1].platform = "opendota"
    /\ \E i \in DOMAIN loads[1] : loads[1][i].platform = "chess_com"

\* A load over a store without any activity: no row, seven columns.
C28_EmptyLoad ==
    /\ call.fn = "load_all_activities"
    /\ loads # <<>>
    /\ loads[Len(loads)] = <<>>
    /\ result = CanonicalColumns


-----------------------------------------------------------------------------
(* Claims about the empty path and the label (SpecFeatures) *)

\* The ten window fields.
WindowFields ==
    {"games_7d", "games_14d", "games_30d",
     "playtime_7d_hours", "playtime_14d_hours", "playtime_30d_hours",
     "avg_daily_sessions_7d", "avg_daily_sessions_14d", "avg_daily_sessions_30d",
     "max_gap_days_30d"}

\* C29: for a player who has activities, none of them with a timestamp at or
\* after reference - 30 days, compute_time_window_features returns for each
\* of the ten window fields the value _empty_features returns: the path that
\* filters and the path for no activity agree.
C29_FilterPathAgreesWithEmpty ==
    (call.fn = "compute_time_window_features" /\ OwnRows # {} /\ RowsSince(30) = {}) =>
        \A f \in WindowFields :
            result[f] = empty_features(call.player_id, call.platform)[f]

\* A player whose only games are 35 days old: no game counted, the gap at
\* the sentinel 30.0.
C29_Witness ==
    /\ call.fn = "compute_time_window_features"
    /\ OwnRows # {}
    /\ RowsSince(30) = {}
    /\ result.games_30d = 0
    /\ result.max_gap_days_30d = 3000


\* C30: the label agrees with the window counts.  Under the default
\* threshold of 14 days a snapshot of build_features_for_player with
\* churned = false has games_14d >= 1, hence games_30d >= 1, and a snapshot
\* of a player who has activities and games_30d = 0 has churned = true.
C30_LabelAgreesWithWindows ==
    (call.fn = "build_features_for_player"
         /\ settings.churn_threshold_days = DefaultSettings.churn_threshold_days) =>
        /\ ~result.churned => (result.games_14d >= 1 /\ result.games_30d >= 1)
        /\ (OwnRows # {} /\ result.games_30d = 0) => result.churned

\* A snapshot under the default threshold that is not churned.
C30_Witness ==
    /\ call.fn = "build_features_for_player"
    /\ settings.churn_threshold_days = 14
    /\ ~result.churned
    /\ result.games_14d >= 1

\* A snapshot under the default threshold of a player whose games are all
\* older than 30 days.
C30_OldGamesOnly ==
    /\ call.fn = "build_features_for_player"
    /\ settings.churn_threshold_days = 14
    /\ OwnRows # {}
    /\ result.games_30d = 0
    /\ result.churned

=============================================================================
